---- MODULE Spec2Model ----
(***************************************************************************)
(* Model of palettelib's Affinity container reader                         *)
(* (src/palettelib/affinity/container.py): the archive file as a sequence  *)
(* of bytes, the shared file handle with its cursor, the construction      *)
(* sequence header -> offsets -> protection -> directory, and the          *)
(* lifecycle of the container and of the streams it hands out.             *)
(***************************************************************************)
EXTENDS Integers, Sequences, FiniteSets, TLC

VARIABLES
    archive,      \* the layout the archive file on disk was written from
    fileBytes,    \* the bytes of the archive file
    adopted,      \* TRUE when the handle was passed in by its owner, FALSE when opened from a path
    filePos,      \* cursor of the shared file handle (self._file.tell())
    fileClosed,   \* self._file.closed
    pc,           \* position inside AffinityFile.__init__ / _populate_info
    ctorErr,      \* the error that aborted construction, "none" otherwise
    blocksRead,   \* the blocks whose reader has been entered, in order
    header,       \* self.header    (NoHeader until decoded)
    offsets,      \* self.offsets   (NoOffsets until decoded)
    protection,   \* self.protection (NoProtection until decoded)
    directory,    \* self.directory (NoDirectory until decoded)
    closedFlag,   \* AffinityFile._closed
    refcount,     \* AffinityFile._refcount
    streams,      \* the AffinityExtFile objects returned by open(), by creation order
    lastOp,       \* the last public call and what it returned or raised
    convert       \* test/convert.py main on one palette file: its position, the file, what it read and wrote

vars == <<archive, fileBytes, adopted, filePos, fileClosed, pc, ctorErr, blocksRead,
          header, offsets, protection, directory, closedFlag, refcount, streams, lastOp,
          convert>>

(***************************************************************************)
(* Bounds of the model                                                     *)
(***************************************************************************)
MaxStreams == 2      \* streams a behaviour may obtain from open()
MaxPosition == 6     \* how far partial reads may advance a stream's position
MaxSwatches == 2     \* colours listed by a table of a palette file

(***************************************************************************)
(* Constants of the format                                                 *)
(***************************************************************************)
CONTAINER_MAGIC == 1095499520                  \* 0x414bff00
CONTAINER_TAG_FAT == <<35, 70, 65, 84>>        \* "#FAT"
CONTAINER_TAG_FT2 == <<35, 70, 84, 50>>        \* "#FT2"
CONTAINER_TAG_FT3 == <<35, 70, 84, 51>>        \* "#FT3"
CONTAINER_TAG_FT4 == <<35, 70, 84, 52>>        \* "#FT4"
CONTAINER_TAG_INF == <<35, 73, 110, 102>>      \* "#Inf"
CONTAINER_TAG_PROT == <<80, 114, 111, 116>>    \* "Prot"
CONTAINER_TAG_FIL == <<35, 70, 105, 108>>      \* "#Fil"

NoVersion == -1                                \* version = None
HeaderOffset == 0
OffsetsOffset == 12
ProtectionOffset == 64

(***************************************************************************)
(* Errors, named by the kind the raise statement stands for                *)
(***************************************************************************)
ErrNone == "none"
ErrInvalidMagic == "InvalidMagic"                  \* ValueError("could not read file header, invalid magic")
ErrInvalidTag == "InvalidTag"                      \* ValueError("could not read file ..., invalid tag")
ErrCorruptDirectory == "CorruptDirectory"          \* ValueError("file table corrupt: trying to read over the end")
ErrCorruptEntry == "CorruptEntry"                  \* raised nowhere in the source
ErrUnsupportedCompression == "UnsupportedCompression"  \* raised nowhere in the source
ErrNotFound == "NotFound"                          \* IOError("file does not exist")
ErrClosed == "Closed"                              \* ValueError("attempted to read file that is already closed")
ErrUnsupportedOperation == "UnsupportedOperation"  \* ValueError("writing is currently not implemented")
ErrInvalidMode == "InvalidMode"                    \* ValueError('open() requires mode "r" or "w"')
ErrDecode == "UnicodeDecodeError"                  \* bytes.decode() failed
ErrAttribute == "AttributeError"                   \* attribute access on None
ErrInvalidWhence == "InvalidWhence"                \* ValueError("whence must be os.SEEK_SET (0), ...")
ErrNotReadable == "NotReadable"                    \* io.UnsupportedOperation: read() on a handle opened 'wb'

(***************************************************************************)
(* Byte primitives                                                         *)
(***************************************************************************)
Min(a, b) == IF a <= b THEN a ELSE b

\* file.seek(pos); file.read(n): at most n bytes, fewer at the end of the file,
\* everything up to the end of the file when n is negative.
FileRead(bytes, pos, n) ==
    IF n < 0 THEN SubSeq(bytes, pos + 1, Len(bytes))
    ELSE SubSeq(bytes, pos + 1, Min(pos + n, Len(bytes)))

\* file.tell() after file.seek(pos); file.read(n)
FileTell(bytes, pos, n) == pos + Len(FileRead(bytes, pos, n))

\* int.from_bytes(b, byteorder='little', signed=False)
RECURSIVE FromBytesLE(_)
FromBytesLE(b) ==
    IF b = <<>> THEN 0 ELSE b[1] + 256 * FromBytesLE(Tail(b))

\* int.from_bytes(b, byteorder='little', signed=True)
FromBytesLESigned(b) ==
    IF b = <<>> THEN 0
    ELSE IF b[Len(b)] < 128 THEN FromBytesLE(b)
    ELSE -(FromBytesLE([i \in 1..Len(b) |-> 255 - b[i]]) + 1)

\* bytes.decode('ascii'): the characters as code points, or a failure
AsciiOk(b) == \A i \in 1..Len(b) : b[i] < 128

\* s[::-1]
Reverse(s) == [i \in 1..Len(s) |-> s[Len(s) + 1 - i]]

\* bytes.decode('utf-8') for one- and two-byte sequences (code points below
\* 0x800); the archives of this model hold no lead byte of a longer sequence.
RECURSIVE Utf8Ok(_)
Utf8Ok(b) ==
    IF b = <<>> THEN TRUE
    ELSE IF b[1] < 128 THEN Utf8Ok(Tail(b))
    ELSE IF b[1] >= 194 /\ b[1] <= 223 /\ Len(b) >= 2 /\ b[2] >= 128 /\ b[2] <= 191
         THEN Utf8Ok(Tail(Tail(b)))
    ELSE FALSE

RECURSIVE Utf8Decode(_)
Utf8Decode(b) ==
    IF b = <<>> THEN <<>>
    ELSE IF b[1] < 128 THEN <<b[1]>> \o Utf8Decode(Tail(b))
    ELSE <<(b[1] - 192) * 64 + (b[2] - 128)>> \o Utf8Decode(Tail(Tail(b)))

\* a comparison that ranks two tags by their last character alone
StrGeqLastChar(s, t) == s[Len(s)] >= t[Len(t)]

\* str >= str: lexicographic comparison by code point, a proper prefix is smaller
RECURSIVE StrGeq(_, _)
StrGeq(s, t) ==
    IF t = <<>> THEN TRUE
    ELSE IF s = <<>> THEN FALSE
    ELSE IF s[1] # t[1] THEN s[1] > t[1]
    ELSE StrGeq(Tail(s), Tail(t))

(***************************************************************************)
(* Block readers.  Each returns [err, value, pos]: the error raised or     *)
(* "none", the decoded block, and the cursor at which the body of its      *)
(* `with self._remember_position()` block stopped (the cursor it was       *)
(* entered with when the reader raised before that block).                 *)
(***************************************************************************)
\* a _remember_position that never seeks back
RememberPositionNone(position, cursor, err) == cursor

\* _remember_position (of AffinityFile and of AffinityExtFile) on exit, entered
\* with the handle at `position` and left by its body at `cursor`: the
\* generator has no try/finally around its yield, self._file.seek(position)
\* runs only when the body returned
RememberPosition(position, cursor, err) == IF err = ErrNone THEN position ELSE cursor

NoHeader == [version |-> 0, flag |-> 0, filetype |-> <<>>]
NoOffsets == [directory_offset |-> 0, file_length |-> 0, data_length |-> 0, creation_date |-> 0]
NoProtection == [flags |-> 0]
NoDirectory == [flags |-> 0, creation_date |-> 0, file_length |-> 0, data_length |-> 0,
                file_entries |-> <<>>]
NoInfo == [index |-> 0, offset |-> 0, size_original |-> 0, size_stored |-> 0,
           checksums |-> <<>>, compressed |-> FALSE, version |-> NoVersion, filename |-> <<>>]

\* AffinityFile._read_header
ReadHeader(bytes, pos0, fclosed) ==
    IF fclosed THEN [err |-> ErrClosed, value |-> NoHeader, pos |-> pos0]
    ELSE
    LET magic == FromBytesLE(FileRead(bytes, HeaderOffset, 4))
        p1 == FileTell(bytes, HeaderOffset, 4)
        version == FromBytesLE(FileRead(bytes, p1, 2))
        p2 == FileTell(bytes, p1, 2)
        flag == FromBytesLE(FileRead(bytes, p2, 2))
        p3 == FileTell(bytes, p2, 2)
        tag == FileRead(bytes, p3, 4)
        p4 == FileTell(bytes, p3, 4)
    IN  IF magic # CONTAINER_MAGIC
        THEN [err |-> ErrInvalidMagic, value |-> NoHeader, pos |-> p1]
        ELSE IF ~AsciiOk(tag)
        THEN [err |-> ErrDecode, value |-> NoHeader, pos |-> p4]
        ELSE [err |-> ErrNone,
              value |-> [version |-> version, flag |-> flag, filetype |-> Reverse(tag)],
              pos |-> p4]

\* AffinityFile._read_offsets
ReadOffsets(bytes, pos0, fclosed) ==
    IF fclosed THEN [err |-> ErrClosed, value |-> NoOffsets, pos |-> pos0]
    ELSE
    LET tag == FileRead(bytes, OffsetsOffset, 4)
        p1 == FileTell(bytes, OffsetsOffset, 4)
        directory_offset == FromBytesLE(FileRead(bytes, p1, 8))
        p2 == FileTell(bytes, p1, 8)
        file_length == FromBytesLE(FileRead(bytes, p2, 8))
        p3 == FileTell(bytes, p2, 8)
        data_length == FromBytesLE(FileRead(bytes, p3, 8))
        p4 == FileTell(bytes, p3, 8)
        p5 == FileTell(bytes, p4, 8)
        creation_date == FromBytesLESigned(FileRead(bytes, p5, 8))
        p6 == FileTell(bytes, p5, 8)
        p7 == FileTell(bytes, p6, 4)
        p8 == FileTell(bytes, p7, 4)
    IN  IF ~AsciiOk(tag)
        THEN [err |-> ErrDecode, value |-> NoOffsets, pos |-> p1]
        ELSE IF tag # CONTAINER_TAG_INF
        THEN [err |-> ErrInvalidTag, value |-> NoOffsets, pos |-> p1]
        ELSE [err |-> ErrNone,
              value |-> [directory_offset |-> directory_offset, file_length |-> file_length,
                         data_length |-> data_length, creation_date |-> creation_date],
              pos |-> p8]

\* AffinityFile._read_protection
ReadProtection(bytes, pos0, fclosed) ==
    IF fclosed THEN [err |-> ErrClosed, value |-> NoProtection, pos |-> pos0]
    ELSE
    LET tag == FileRead(bytes, ProtectionOffset, 4)
        p1 == FileTell(bytes, ProtectionOffset, 4)
        flags == FromBytesLE(FileRead(bytes, p1, 4))
        p2 == FileTell(bytes, p1, 4)
    IN  IF ~AsciiOk(tag)
        THEN [err |-> ErrDecode, value |-> NoProtection, pos |-> p1]
        ELSE IF tag # CONTAINER_TAG_PROT
        THEN [err |-> ErrInvalidTag, value |-> NoProtection, pos |-> p1]
        ELSE [err |-> ErrNone, value |-> [flags |-> flags], pos |-> p2]

\* AffinityFile._read_directory_entry, entered with the cursor at p
ReadDirectoryEntry(bytes, p, tag) ==
    LET index == FromBytesLE(FileRead(bytes, p, 4))
        p1 == FileTell(bytes, p, 4)
        p2 == FileTell(bytes, p1, 1)
        offset == FromBytesLE(FileRead(bytes, p2, 8))
        p3 == FileTell(bytes, p2, 8)
        size_real == FromBytesLE(FileRead(bytes, p3, 8))
        p4 == FileTell(bytes, p3, 8)
        size_stored == FromBytesLE(FileRead(bytes, p4, 8))
        p5 == FileTell(bytes, p4, 8)
        checksum1 == FromBytesLE(FileRead(bytes, p5, 4))
        p6 == FileTell(bytes, p5, 4)
        compressed == FromBytesLE(FileRead(bytes, p6, 1)) # 0
        p7 == FileTell(bytes, p6, 1)
        hasVersion == StrGeq(tag, CONTAINER_TAG_FT2)
        version == IF hasVersion THEN FromBytesLE(FileRead(bytes, p7, 4)) ELSE NoVersion
        p8 == IF hasVersion THEN FileTell(bytes, p7, 4) ELSE p7
        hasSecond == StrGeq(tag, CONTAINER_TAG_FT4)
        checksums == IF hasSecond
                     THEN <<checksum1, FromBytesLE(FileRead(bytes, p8, 4))>>
                     ELSE <<checksum1>>
        p9 == IF hasSecond THEN FileTell(bytes, p8, 4) ELSE p8
        filename_length == FromBytesLE(FileRead(bytes, p9, 2))
        p10 == FileTell(bytes, p9, 2)
        nameBytes == FileRead(bytes, p10, filename_length)
        p11 == FileTell(bytes, p10, filename_length)
    IN  IF ~Utf8Ok(nameBytes)
        THEN [err |-> ErrDecode, info |-> NoInfo, pos |-> p11]
        ELSE [err |-> ErrNone,
              info |-> [index |-> index, offset |-> offset, size_original |-> size_real,
                        size_stored |-> size_stored, checksums |-> checksums,
                        compressed |-> compressed, version |-> version,
                        filename |-> Utf8Decode(nameBytes)],
              pos |-> p11]

\* a loop that stops only once the cursor has passed the end of the table
RECURSIVE ReadEntriesPastEnd(_, _, _, _, _, _)
ReadEntriesPastEnd(bytes, p, end, remaining, tag, acc) ==
    IF remaining = 0 THEN [err |-> ErrNone, entries |-> acc, pos |-> p]
    ELSE IF p > end THEN [err |-> ErrCorruptDirectory, entries |-> acc, pos |-> p]
    ELSE LET r == ReadDirectoryEntry(bytes, p, tag)
         IN  IF r.err # ErrNone
             THEN [err |-> r.err, entries |-> acc, pos |-> r.pos]
             ELSE ReadEntriesPastEnd(bytes, r.pos, end, remaining - 1, tag, Append(acc, r.info))

\* a loop that puts each entry it reads in front of the ones read before
RECURSIVE ReadEntriesPrepend(_, _, _, _, _, _)
ReadEntriesPrepend(bytes, p, end, remaining, tag, acc) ==
    IF remaining = 0 THEN [err |-> ErrNone, entries |-> acc, pos |-> p]
    ELSE IF p >= end THEN [err |-> ErrCorruptDirectory, entries |-> acc, pos |-> p]
    ELSE LET r == ReadDirectoryEntry(bytes, p, tag)
         IN  IF r.err # ErrNone
             THEN [err |-> r.err, entries |-> acc, pos |-> r.pos]
             ELSE ReadEntriesPrepend(bytes, r.pos, end, remaining - 1, tag, <<r.info>> \o acc)

\* the loop of AffinityFile._read_directory: `remaining` entries still to read
RECURSIVE ReadEntries(_, _, _, _, _, _)
ReadEntries(bytes, p, end, remaining, tag, acc) ==
    IF remaining = 0 THEN [err |-> ErrNone, entries |-> acc, pos |-> p]
    ELSE IF p >= end THEN [err |-> ErrCorruptDirectory, entries |-> acc, pos |-> p]
    ELSE LET r == ReadDirectoryEntry(bytes, p, tag)
         IN  IF r.err # ErrNone
             THEN [err |-> r.err, entries |-> acc, pos |-> r.pos]
             ELSE ReadEntries(bytes, r.pos, end, remaining - 1, tag, Append(acc, r.info))

\* AffinityFile._read_directory
ReadDirectory(bytes, pos0, fclosed, directory_offset) ==
    IF fclosed THEN [err |-> ErrClosed, value |-> NoDirectory, pos |-> pos0]
    ELSE
    LET tag == FileRead(bytes, directory_offset, 4)
        p1 == directory_offset + Len(tag)
        flags == FromBytesLE(FileRead(bytes, p1, 8))
        p2 == FileTell(bytes, p1, 8)
        creation_date == FromBytesLESigned(FileRead(bytes, p2, 8))
        p3 == FileTell(bytes, p2, 8)
        file_length == FromBytesLE(FileRead(bytes, p3, 8))
        p4 == FileTell(bytes, p3, 8)
        data_length == FromBytesLE(FileRead(bytes, p4, 8))
        p5 == FileTell(bytes, p4, 8)
        p6 == FileTell(bytes, p5, 8)
        table_count == FromBytesLE(FileRead(bytes, p6, 8))
        p7 == FileTell(bytes, p6, 8)
        table_length == FromBytesLE(FileRead(bytes, p7, 4))
        p8 == FileTell(bytes, p7, 4)
        p9 == FileTell(bytes, p8, 3)
        end == p9 + table_length
        r == ReadEntries(bytes, p9, end, table_count, tag, <<>>)
    IN  IF ~AsciiOk(tag)
        THEN [err |-> ErrDecode, value |-> NoDirectory, pos |-> p1]
        ELSE IF r.err # ErrNone
        THEN [err |-> r.err, value |-> NoDirectory, pos |-> r.pos]
        ELSE [err |-> ErrNone,
              value |-> [flags |-> flags, creation_date |-> creation_date,
                         file_length |-> file_length, data_length |-> data_length,
                         file_entries |-> r.entries],
              pos |-> r.pos]

(***************************************************************************)
(* Archive files.  A layout names what a writer of the format put into the *)
(* file; ArchiveBytes lays it out byte for byte as the readers above       *)
(* consume it: the three fixed blocks, one payload block per entry (a      *)
(* 4-byte local tag, then the stored bytes), then the directory.           *)
(***************************************************************************)
\* v.to_bytes(n, byteorder='little'), the inverse of FromBytesLE
RECURSIVE ToBytesLE(_, _)
ToBytesLE(v, n) ==
    IF n = 0 THEN <<>> ELSE <<v % 256>> \o ToBytesLE(v \div 256, n - 1)

\* v.to_bytes(n, byteorder='little', signed=True), the inverse of FromBytesLESigned
ToBytesLESigned(v, n) ==
    IF v >= 0 THEN ToBytesLE(v, n)
    ELSE [i \in 1..n |-> 255 - ToBytesLE(-v - 1, n)[i]]

RECURSIVE Concat(_)
Concat(ss) == IF ss = <<>> THEN <<>> ELSE Head(ss) \o Concat(Tail(ss))

FixedBlocksLength == 72     \* header (12) + offsets block (52) + protection block (8)

\* the payload block of entry i: its local tag, then its stored bytes
PayloadBlock(L, i) == L.entries[i].localTag \o L.entries[i].stored

\* entry.offset of entry i: where its payload block starts
RECURSIVE PayloadOffset(_, _)
PayloadOffset(L, i) ==
    IF i = 1 THEN FixedBlocksLength
    ELSE PayloadOffset(L, i - 1) + Len(PayloadBlock(L, i - 1))

\* the directory record of entry i, in the record shape of variant L.shape
\* (1: #FAT, 2: #FT2, 3: #FT3, 4: #FT4)
EntryRecord(L, i) ==
    LET e == L.entries[i]
    IN  ToBytesLE(i - 1, 4) \o <<0>> \o ToBytesLE(PayloadOffset(L, i), 8)
        \o ToBytesLE(e.sizeOriginal, 8) \o ToBytesLE(Len(e.stored), 8)
        \o ToBytesLE(e.checksum, 4) \o <<e.compression>>
        \o (IF L.shape >= 2 THEN ToBytesLE(e.version, 4) ELSE <<>>)
        \o (IF L.shape >= 4 THEN ToBytesLE(e.checksum2, 4) ELSE <<>>)
        \o ToBytesLE(Len(e.name), 2) \o e.name

EntryTable(L) == Concat([i \in 1..Len(L.entries) |-> EntryRecord(L, i)])
PayloadBlocks(L) == Concat([i \in 1..Len(L.entries) |-> PayloadBlock(L, i)])

DirectoryOffset(L) == FixedBlocksLength + Len(PayloadBlocks(L))
DirectoryHeaderLength == 59     \* tag (4) + five u64 (40) + table_count (8) + table_length (4) + 3 reserved

\* the whole file; L.cut bytes are missing from its end
ArchiveBytes(L) ==
    LET table == EntryTable(L)
        total == DirectoryOffset(L) + DirectoryHeaderLength + Len(table)
        data == Len(PayloadBlocks(L))
        whole ==
            L.magic \o ToBytesLE(L.version, 2) \o ToBytesLE(L.flag, 2) \o Reverse(L.filetype)
            \o L.infTag \o ToBytesLE(DirectoryOffset(L), 8) \o ToBytesLE(total, 8)
            \o ToBytesLE(data, 8) \o ToBytesLE(0, 8) \o ToBytesLESigned(L.created, 8)
            \o ToBytesLE(0, 4) \o ToBytesLE(0, 4)
            \o L.protTag \o ToBytesLE(L.protFlags, 4)
            \o PayloadBlocks(L)
            \o L.dirTag \o ToBytesLE(L.dirFlags, 8) \o ToBytesLESigned(L.created, 8)
            \o ToBytesLE(total, 8) \o ToBytesLE(data, 8) \o ToBytesLE(0, 8)
            \o ToBytesLE(L.tableCount, 8) \o ToBytesLE(L.tableLength, 4) \o <<0, 0, 0>>
            \o table
    IN  SubSeq(whole, 1, Len(whole) - L.cut)

\* file names: "a", "b", "A", "c", and "é" in UTF-8
NameA == <<97>>
NameB == <<98>>
NameUpperA == <<65>>
NameC == <<99>>
NameE == <<195, 169>>

\* a raw entry: stored as is, 6 bytes
EntryA == [name |-> NameA, stored |-> <<11, 12, 13, 14, 15, 16>>, localTag |-> CONTAINER_TAG_FIL,
           sizeOriginal |-> 6, compression |-> 0, checksum |-> 7, checksum2 |-> 8, version |-> 1]
\* a second raw entry, 5 bytes
EntryB == [name |-> NameB, stored |-> <<21, 22, 23, 24, 25>>, localTag |-> CONTAINER_TAG_FIL,
           sizeOriginal |-> 5, compression |-> 0, checksum |-> 9, checksum2 |-> 10, version |-> 2]
\* entries declared compressed (algorithm 1, 2) or with an unknown algorithm (3):
\* 3 stored bytes that stand for 5 original ones
EntryZ(alg) == [EntryB EXCEPT !.stored = <<31, 32, 33>>, !.sizeOriginal = 5, !.compression = alg]

RecordLength(L, i) == Len(EntryRecord(L, i))

\* a well-formed archive: tag #FT4, entries "a" and "b", the table length as written
GoodLayout ==
    LET L0 == [magic |-> ToBytesLE(CONTAINER_MAGIC, 4), version |-> 2, flag |-> 1,
               filetype |-> <<80, 97, 108, 116>>,
               infTag |-> CONTAINER_TAG_INF, protTag |-> CONTAINER_TAG_PROT, protFlags |-> 3,
               dirTag |-> CONTAINER_TAG_FT4, shape |-> 4, dirFlags |-> 5, created |-> 1000,
               entries |-> <<EntryA, EntryB>>, tableCount |-> 2, tableLength |-> 0, cut |-> 0]
    IN  [L0 EXCEPT !.tableLength = Len(EntryTable(L0))]

\* the same archive with other entries, table count and length as written
WithEntries(es) ==
    LET L0 == [GoodLayout EXCEPT !.entries = es, !.tableCount = Len(es)]
    IN  [L0 EXCEPT !.tableLength = Len(EntryTable(L0))]

\* the same archive in another directory variant
WithVariant(tag, shape) ==
    LET L0 == [GoodLayout EXCEPT !.dirTag = tag, !.shape = shape]
    IN  [L0 EXCEPT !.tableLength = Len(EntryTable(L0))]

Layouts ==
    { GoodLayout,
      WithVariant(CONTAINER_TAG_FAT, 1),
      WithVariant(CONTAINER_TAG_FT2, 2),
      WithVariant(CONTAINER_TAG_FT3, 3),
      WithVariant(<<35, 88, 89, 90>>, 4),                                \* unknown tag "#XYZ"
      [GoodLayout EXCEPT !.magic = <<0, 0, 0, 0>>],                      \* wrong magic
      [GoodLayout EXCEPT !.infTag = <<35, 73, 110, 103>>],               \* "#Ing"
      [GoodLayout EXCEPT !.protTag = <<80, 114, 111, 117>>],             \* "Prou"
      [GoodLayout EXCEPT !.magic = <<0, 0, 0, 0>>, !.infTag = <<35, 73, 110, 103>>,
                         !.tableLength = 0],                             \* several blocks wrong
      [GoodLayout EXCEPT !.created = -1],
      [GoodLayout EXCEPT !.tableLength = 0],                             \* no room for any entry
      [GoodLayout EXCEPT !.tableLength = 1],                             \* room for less than one
      [GoodLayout EXCEPT !.tableLength = RecordLength(GoodLayout, 1)],   \* room for one of two
      [GoodLayout EXCEPT !.tableLength = RecordLength(GoodLayout, 1) + 1],
      [GoodLayout EXCEPT !.tableCount = 1],                              \* fewer declared than written
      [GoodLayout EXCEPT !.tableCount = 0],                              \* none declared
      [GoodLayout EXCEPT !.tableCount = 0, !.tableLength = 0],
      [GoodLayout EXCEPT !.tableCount = 1, !.tableLength = 1],           \* one declared, room for less
      [GoodLayout EXCEPT !.tableCount = 3, !.tableLength = 200],         \* more declared than written
      [GoodLayout EXCEPT !.cut = 20],                                    \* file ends inside record 2
      WithEntries(<<>>),
      WithEntries(<<EntryB, EntryA>>),
      WithEntries(<<EntryA, [EntryB EXCEPT !.name = NameA]>>),           \* a name used twice
      WithEntries(<<EntryA, [EntryB EXCEPT !.name = NameE]>>),
      WithEntries(<<EntryA, [EntryB EXCEPT !.name = <<255>>]>>),         \* a name that is not UTF-8
      WithEntries(<<[EntryA EXCEPT !.localTag = <<35, 70, 105, 109>>], EntryB>>),  \* wrong local tag
      WithEntries(<<EntryA, EntryZ(1)>>),
      WithEntries(<<EntryZ(2), EntryA>>),
      WithEntries(<<EntryA, EntryZ(3)>>) }

\* the names callers ask for: "a", "b", and "A", which no archive holds
Names == {NameA, NameB, NameUpperA}
\* the modes callers pass to open(): the two accepted ones and another
Modes == {"r", "w", "x"}
\* the sizes callers pass to a stream's read() and peek(): the default of each
ReadSizes == {-1}
PeekSizes == {1}
\* the sizes of the reads that are interleaved on two streams: two bytes, or the rest
PartialSizes == {-1, 2}
\* the arguments callers pass to a stream's seek(): offsets before and after
\* the start, and the three values of whence and another
SeekOffsets == {-1, 3}
Whences == {0, 1, 2, 3}

(***************************************************************************)
(* The container and its streams                                           *)
(***************************************************************************)
NoOp == [op |-> "none", name |-> <<>>, mode |-> "", stream |-> 0, err |-> ErrNone, data |-> <<>>]

Call(op, name, mode, stream, err, data) ==
    [op |-> op, name |-> name, mode |-> mode, stream |-> stream, err |-> err, data |-> data]

\* a closed() that reports the flag alone
ClosedFlagOnly(flag, fclosed) == flag

\* a closed() that reports the handle alone
ClosedHandleOnly(flag, fclosed) == fclosed

\* AffinityFile.closed: the value returned; it also sets _closed to that value
Closed(flag, fclosed) == fclosed \/ flag

\* close() that does not look at the reference count
CloseHandleNoDefer(rc, fclosed) == TRUE

\* AffinityFile.close, as seen by the handle: the new value of self._file.closed
CloseHandle(rc, fclosed) == IF rc > 0 THEN fclosed ELSE TRUE

\* _find_entry that returns an entry whatever the name
FindFromAny(entries, name, i) == IF i > Len(entries) THEN 0 ELSE i

\* AffinityFile._find_entry: the index of the first entry with that filename, 0 for None
RECURSIVE FindFrom(_, _, _)
FindFrom(entries, name, i) ==
    IF i > Len(entries) THEN 0
    ELSE IF entries[i].filename = name THEN i
    ELSE FindFrom(entries, name, i + 1)

FindEntry(entries, name) == FindFrom(entries, name, 1)

\* AffinityFile.infolist
InfoList(dir) == dir.file_entries

\* the index of the last entry with that filename, 0 when there is none
RECURSIVE LastIndexOf(_, _, _)
LastIndexOf(entries, name, i) ==
    IF i = 0 THEN 0
    ELSE IF entries[i].filename = name THEN i
    ELSE LastIndexOf(entries, name, i - 1)

\* AffinityFile.listdir: dict((data.filename, data) for data in file_entries);
\* a later pair replaces an earlier one with the same key
ListDir(dir) ==
    LET entries == dir.file_entries
        keys == {entries[i].filename : i \in 1..Len(entries)}
    IN  [name \in keys |-> entries[LastIndexOf(entries, name, Len(entries))]]

\* AffinityFile.namelist
NameList(dir) == [i \in 1..Len(dir.file_entries) |-> dir.file_entries[i].filename]

\* an open() that treats mode "w" like mode "r"
OpenErrorWriteAsRead(name, mode, flag, fclosed, entries) ==
    IF mode \notin {"r", "w"} THEN ErrInvalidMode
    ELSE IF Closed(flag, fclosed) THEN ErrClosed
    ELSE IF FindEntry(entries, name) = 0 THEN ErrNotFound
    ELSE ErrNone

\* AffinityFile.open up to its return or raise: the error, "none" when a stream is returned
OpenError(name, mode, flag, fclosed, entries) ==
    IF mode \notin {"r", "w"} THEN ErrInvalidMode
    ELSE IF Closed(flag, fclosed) THEN ErrClosed
    ELSE IF mode = "w" THEN ErrUnsupportedOperation
    ELSE IF FindEntry(entries, name) = 0 THEN ErrNotFound
    ELSE ErrNone

\* open() that forgets the stream it returns
AcquireNone(rc) == rc

\* self._refcount += 1 in AffinityFile.open
Acquire(rc) == rc + 1

\* _close() that forgets to count the release
ReleaseNone(rc) == rc

\* self._refcount -= 1 in AffinityFile._close
Release(rc) == rc - 1

\* AffinityExtFile.__init__: the stream open() returns
NewStream(info) == [info |-> info, released |-> FALSE, position |-> 0]

\* the n that AffinityExtFile.read and peek replace a negative argument by
ReadCount(st, n) == IF n < 0 THEN st.info.size_original - st.position ELSE n

\* AffinityExtFile.peek: the bytes returned
PeekData(bytes, st, n) == FileRead(bytes, st.position + st.info.offset, ReadCount(st, n))

\* AffinityExtFile.peek: the cursor of the handle after its seek and read
PeekTell(bytes, st, n) == FileTell(bytes, st.position + st.info.offset, ReadCount(st, n))

\* AffinityExtFile._remember_position on entry: the error it raises, if any
StreamError(st, fclosed) ==
    IF st.released THEN ErrAttribute
    ELSE IF fclosed THEN ErrClosed
    ELSE ErrNone

\* AffinityExtFile.closed
StreamClosed(st, fclosed) == st.released \/ fclosed

\* AffinityExtFile.seek: new_position before it is clamped (whence 0, 1 or 2)
SeekBase(st, offset, whence) ==
    IF whence = 0 THEN offset
    ELSE IF whence = 1 THEN st.position + offset
    ELSE st.info.offset + offset

\* AffinityExtFile.seek: the position it sets and returns (whence 0, 1 or 2)
SeekPosition(st, offset, whence) ==
    LET new_position == SeekBase(st, offset, whence)
        capped == IF new_position > st.info.size_original THEN st.info.size_original
                  ELSE new_position
    IN  IF capped < 0 THEN 0 ELSE capped

\* AffinityExtFile.seek: the error it raises, if any
SeekError(st, fclosed, whence) ==
    IF StreamClosed(st, fclosed) THEN ErrClosed
    ELSE IF whence \notin {0, 1, 2} THEN ErrInvalidWhence
    ELSE ErrNone

(***************************************************************************)
(* The palette model (palette.py, color.py) and the ACO codec              *)
(* (format/format_aco.py).  An Optional value is the empty sequence for    *)
(* None and a one-element sequence otherwise; a str is the sequence of     *)
(* its code points.  A canonical colour value is a rational number         *)
(* [n, d] in lowest terms: the arithmetic of tonemap is exact here, where  *)
(* the code computes it in binary floating point.                          *)
(***************************************************************************)
None == <<>>
Some(x) == <<x>>

RangePaletteNative == <<0, 1>>
RangeAcoNative == <<0, 65535>>
RangeAcoBrightness == <<0, 10000>>
RangeAcoLabAB == <<-12800, 12700>>

ErrStruct == "StructError"                \* struct.error: unpack requires a buffer of n bytes
ErrUnsupportedColor == "UnsupportedColor" \* Exception("unsupported color format: ...")

Abs(n) == IF n < 0 THEN -n ELSE n

RECURSIVE Gcd(_, _)
Gcd(a, b) == IF b = 0 THEN a ELSE Gcd(b, a % b)

\* the number n / d
Rat(n, d) ==
    LET g == Gcd(Abs(n), Abs(d))
        s == IF d < 0 THEN -1 ELSE 1
    IN  [n |-> (s * n) \div g, d |-> (s * d) \div g]

RatInt(n) == [n |-> n, d |-> 1]
RatAdd(x, y) == Rat(x.n * y.d + y.n * x.d, x.d * y.d)
RatSub(x, y) == Rat(x.n * y.d - y.n * x.d, x.d * y.d)
RatMul(x, y) ==
    LET g1 == Gcd(Abs(x.n), y.d)
        g2 == Gcd(Abs(y.n), x.d)
    IN  Rat((x.n \div g1) * (y.n \div g2), (x.d \div g2) * (y.d \div g1))

\* int(x) of a float: truncation towards zero
Truncate(x) == IF x.n >= 0 THEN x.n \div x.d ELSE -((-x.n) \div x.d)

\* io.tonemap(value, old, new)
Tonemap(value, old, new) ==
    LET old_offset == old[2]
        old_range == old[2] - old[1]
        new_offset == new[2]
        new_range == new[2] - new[1]
        factor == Rat(new_range, old_range)
    IN  RatAdd(RatMul(RatSub(value, RatInt(old_offset)), factor), RatInt(new_offset))

\* struct.unpack('!H', b), struct.unpack('!h', b) / struct.pack('!H', v), struct.pack('!h', v)
FromBytesBE(b) == FromBytesLE(Reverse(b))
FromBytesBESigned(b) == FromBytesLESigned(Reverse(b))
ToBytesBE(v, n) == Reverse(ToBytesLE(v, n))
ToBytesBESigned(v, n) == Reverse(ToBytesLESigned(v, n))

\* bytes.decode('UTF-16BE') and str.encode('UTF-16BE') for code points below 0xD800
Utf16Decode(b) == [i \in 1..(Len(b) \div 2) |-> 256 * b[2 * i - 1] + b[2 * i]]
Utf16Encode(s) == Concat([i \in 1..Len(s) |-> ToBytesBE(s[i], 2)])

\* palette.ColorSwatch(name, spot, rgb, cmyk, lab, gray) and palette.Palette(name, groups, swatches)
ColorSwatch(name, spot, rgb, cmyk, lab, gray) ==
    [name |-> name, spot |-> spot, rgb |-> rgb, cmyk |-> cmyk, lab |-> lab, gray |-> gray]
Palette(name, groups, swatches) == [name |-> name, groups |-> groups, swatches |-> swatches]

\* format_aco.parse_swatch(stream, version) with the stream at p
ParseSwatch(bytes, p, version) ==
    LET tb == FileRead(bytes, p, 2)
        swatch_type == FromBytesBE(tb)
        p1 == p + Len(tb)
        cb == FileRead(bytes, p1, 8)
        p2 == p1 + Len(cb)
        H(i) == RatInt(FromBytesBE(SubSeq(cb, 2 * i - 1, 2 * i)))
        h(i) == RatInt(FromBytesBESigned(SubSeq(cb, 2 * i - 1, 2 * i)))
        need == CASE swatch_type = 0 -> 6
                  [] swatch_type = 2 -> 8
                  [] swatch_type = 7 -> 6
                  [] OTHER -> 2
        rgb == IF swatch_type = 0
               THEN Some([r |-> Tonemap(H(1), RangeAcoNative, RangePaletteNative),
                          g |-> Tonemap(H(2), RangeAcoNative, RangePaletteNative),
                          b |-> Tonemap(H(3), RangeAcoNative, RangePaletteNative)])
               ELSE None
        cmyk == IF swatch_type = 2
                THEN Some([c |-> Tonemap(H(1), RangeAcoNative, RangePaletteNative),
                           m |-> Tonemap(H(2), RangeAcoNative, RangePaletteNative),
                           y |-> Tonemap(H(3), RangeAcoNative, RangePaletteNative),
                           k |-> Tonemap(H(4), RangeAcoNative, RangePaletteNative)])
                ELSE None
        lab == IF swatch_type = 7
               THEN Some([l |-> Tonemap(H(1), RangeAcoBrightness, RangePaletteNative),
                          a |-> Tonemap(h(2), RangeAcoLabAB, RangePaletteNative),
                          b |-> Tonemap(h(3), RangeAcoLabAB, RangePaletteNative)])
               ELSE None
        gray == IF swatch_type = 8
                THEN Some([k |-> Tonemap(H(1), RangeAcoBrightness, RangePaletteNative)])
                ELSE None
        lb == FileRead(bytes, p2, 4)
        length == FromBytesBESigned(lb)
        p3 == p2 + Len(lb)
        raw == FileRead(bytes, p3, length * 2)
        enc_name == IF Len(raw) < 2 THEN <<>> ELSE SubSeq(raw, 1, Len(raw) - 2)
        failed(e) == [err |-> e, swatch |-> ColorSwatch(None, FALSE, None, None, None, None),
                      pos |-> p]
    IN  IF Len(tb) < 2 THEN failed(ErrStruct)
        ELSE IF swatch_type \notin {0, 2, 7, 8} THEN failed(ErrUnsupportedColor)
        ELSE IF Len(cb) < need THEN failed(ErrStruct)
        ELSE IF version # 2
        THEN [err |-> ErrNone, swatch |-> ColorSwatch(None, FALSE, rgb, cmyk, lab, gray),
              pos |-> p2]
        ELSE IF Len(lb) < 4 THEN failed(ErrStruct)
        ELSE IF Len(raw) % 2 # 0 THEN failed(ErrDecode)
        ELSE [err |-> ErrNone,
              swatch |-> ColorSwatch(Some(Utf16Decode(enc_name)), FALSE, rgb, cmyk, lab, gray),
              pos |-> p3 + Len(raw)]

\* format_aco.parse_table(stream) up to its list comprehension: the table header
\* at p; no table (None is returned) at the end of the file
ParseTable(bytes, p) ==
    LET table_header == FileRead(bytes, p, 4)
    IN  IF Len(table_header) = 0
        THEN [err |-> ErrNone, table |-> FALSE, version |-> 0, length |-> 0, pos |-> p]
        ELSE IF Len(table_header) < 4
        THEN [err |-> ErrStruct, table |-> FALSE, version |-> 0, length |-> 0, pos |-> p]
        ELSE [err |-> ErrNone, table |-> TRUE,
              version |-> FromBytesBE(SubSeq(table_header, 1, 2)),
              length |-> FromBytesBE(SubSeq(table_header, 3, 4)), pos |-> p + 4]

\* format_aco.write_color_rgb .. write_color_gray: the type, then a buffer of 8 bytes
WriteColorRgb(color) ==
    ToBytesBE(0, 2)
    \o ToBytesBE(Truncate(Tonemap(color.r, RangePaletteNative, RangeAcoNative)), 2)
    \o ToBytesBE(Truncate(Tonemap(color.g, RangePaletteNative, RangeAcoNative)), 2)
    \o ToBytesBE(Truncate(Tonemap(color.b, RangePaletteNative, RangeAcoNative)), 2)
    \o <<0, 0>>

WriteColorCmyk(color) ==
    ToBytesBE(2, 2)
    \o ToBytesBE(Truncate(Tonemap(color.c, RangePaletteNative, RangeAcoNative)), 2)
    \o ToBytesBE(Truncate(Tonemap(color.m, RangePaletteNative, RangeAcoNative)), 2)
    \o ToBytesBE(Truncate(Tonemap(color.y, RangePaletteNative, RangeAcoNative)), 2)
    \o ToBytesBE(Truncate(Tonemap(color.k, RangePaletteNative, RangeAcoNative)), 2)

WriteColorLab(color) ==
    ToBytesBE(7, 2)
    \o ToBytesBE(Truncate(Tonemap(color.l, RangePaletteNative, RangeAcoBrightness)), 2)
    \o ToBytesBESigned(Truncate(Tonemap(color.a, RangePaletteNative, RangeAcoLabAB)), 2)
    \o ToBytesBESigned(Truncate(Tonemap(color.b, RangePaletteNative, RangeAcoLabAB)), 2)
    \o <<0, 0>>

WriteColorGray(color) ==
    ToBytesBE(8, 2)
    \o ToBytesBE(Truncate(Tonemap(color.k, RangePaletteNative, RangeAcoBrightness)), 2)
    \o <<0, 0, 0, 0, 0, 0>>

\* format_aco.write_name(stream, name, version)
WriteName(name, version) ==
    IF version # 2 THEN <<>>
    ELSE IF name = Some(<<>>) \/ name = None THEN ToBytesBESigned(0, 4)
    ELSE ToBytesBESigned(Len(name[1]) + 1, 4) \o Utf16Encode(name[1]) \o ToBytesBE(0, 2)

\* format_aco.write_swatch(stream, swatch, version): one record per colour the swatch has
WriteSwatch(swatch, version) ==
    (IF swatch.rgb # None
     THEN WriteColorRgb(swatch.rgb[1]) \o WriteName(swatch.name, version) ELSE <<>>)
    \o (IF swatch.cmyk # None
        THEN WriteColorCmyk(swatch.cmyk[1]) \o WriteName(swatch.name, version) ELSE <<>>)
    \o (IF swatch.lab # None
        THEN WriteColorLab(swatch.lab[1]) \o WriteName(swatch.name, version) ELSE <<>>)
    \o (IF swatch.gray # None
        THEN WriteColorGray(swatch.gray[1]) \o WriteName(swatch.name, version) ELSE <<>>)

\* format_aco.count_colors(swatches)
RECURSIVE CountColors(_)
CountColors(swatches) ==
    IF swatches = <<>> THEN 0
    ELSE LET swatch == Head(swatches)
         IN  (IF swatch.rgb # None THEN 1 ELSE 0) + (IF swatch.cmyk # None THEN 1 ELSE 0)
             + (IF swatch.lab # None THEN 1 ELSE 0) + (IF swatch.gray # None THEN 1 ELSE 0)
             + CountColors(Tail(swatches))

\* format_aco.write_table(stream, swatches, version)
WriteTable(swatches, version) ==
    ToBytesBE(version, 2) \o ToBytesBE(CountColors(swatches), 2)
    \o Concat([i \in 1..Len(swatches) |-> WriteSwatch(swatches[i], version)])

\* format_aco.write_aco(filepath, palette): the bytes of the file it leaves
WriteAco(palette) ==
    LET swatches == palette.swatches
                    \o Concat([i \in 1..Len(palette.groups) |-> palette.groups[i].swatches])
    IN  WriteTable(swatches, 1) \o WriteTable(swatches, 2)

(***************************************************************************)
(* ACO files to convert.  A file is described by the versions of its       *)
(* tables and by the colours every table lists: the type, the native       *)
(* values and, in a version-2 table, the name.  AcoFileBytes lays the      *)
(* description out as the format defines it.                               *)
(***************************************************************************)
AcoColor(type, values, name) == [type |-> type, values |-> values, name |-> name]

AcoColors ==
    { AcoColor(0, <<1, 2, 65535>>, <<97>>),         \* RGB, named "a"
      AcoColor(0, <<0, 30000, 7>>, <<>>),           \* RGB, empty name
      AcoColor(2, <<0, 65535, 7, 30000>>, <<98>>),  \* CMYK, named "b"
      AcoColor(7, <<9, -3665, 12700>>, <<97, 98>>), \* LAB, named "ab"
      AcoColor(8, <<10000>>, <<>>),                 \* grayscale, empty name
      AcoColor(1, <<0, 0, 0>>, <<97>>) }            \* HSB, which the codec does not support

AcoTableVersions == { <<1>>, <<2>>, <<1, 2>> }

AcoColorBytes(color, version) ==
    LET packed == Concat([i \in 1..Len(color.values) |->
                            IF color.values[i] < 0 THEN ToBytesBESigned(color.values[i], 2)
                            ELSE ToBytesBE(color.values[i], 2)])
        buffer == packed \o [i \in 1..(8 - Len(packed)) |-> 0]
        name == IF version # 2 THEN <<>>
                ELSE ToBytesBE(Len(color.name) + 1, 4) \o Utf16Encode(color.name)
                     \o ToBytesBE(0, 2)
    IN  ToBytesBE(color.type, 2) \o buffer \o name

AcoTableBytes(colors, version) ==
    ToBytesBE(version, 2) \o ToBytesBE(Len(colors), 2)
    \o Concat([i \in 1..Len(colors) |-> AcoColorBytes(colors[i], version)])

AcoFileBytes(colors, versions) ==
    Concat([i \in 1..Len(versions) |-> AcoTableBytes(colors, versions[i])])

AcoFiles ==
    { AcoFileBytes(colors, versions) :
        colors \in UNION { [1..n -> AcoColors] : n \in 0..MaxSwatches },
        versions \in AcoTableVersions }

\* test/convert.py main before it has picked a file: no file read or written,
\* no stream open
NoConversion ==
    [pc |-> "idle", file |-> <<>>, data |-> Palette(None, <<>>, <<>>), written |-> <<>>,
     rewritten |-> Palette(None, <<>>, <<>>),
     stream |-> <<>>, pos |-> 0, version |-> 0, remaining |-> 0, table |-> <<>>,
     swatches |-> <<>>]

(***************************************************************************)
(* Initial states: an archive file on disk, opened by path (cursor 0) or   *)
(* handed over as an open handle whose cursor is wherever its owner left   *)
(* it, and a container about to be constructed.                            *)
(***************************************************************************)
InitAt(layouts, start) ==
    /\ archive \in layouts
    /\ fileBytes = ArchiveBytes(archive)
    /\ adopted \in BOOLEAN
    /\ filePos = IF adopted THEN 5 ELSE 0
    /\ fileClosed = FALSE
    /\ pc = start
    /\ ctorErr = ErrNone
    /\ blocksRead = <<>>
    /\ header = NoHeader
    /\ offsets = NoOffsets
    /\ protection = NoProtection
    /\ directory = NoDirectory
    /\ closedFlag = FALSE
    /\ refcount = 0
    /\ streams = <<>>
    /\ lastOp = NoOp
    /\ convert = NoConversion

\* the container as _populate_info finds it: the file opened 'rb', or adopted
InitOn(layouts) == InitAt(layouts, "header")

(***************************************************************************)
(* Construction: AffinityFile.__init__ calls _populate_info, which calls   *)
(* the four readers in turn; an exception leaves through __init__.         *)
(***************************************************************************)
lifecycleVars == <<refcount, streams, lastOp>>

\* a _populate_info that goes on to the next reader after a failure
StepNoAbort(block, r, next) ==
    /\ blocksRead' = Append(blocksRead, block)
    /\ closedFlag' = Closed(closedFlag, fileClosed)
    /\ filePos' = RememberPosition(filePos, r.pos, r.err)
    /\ pc' = next
    /\ ctorErr' = r.err
    /\ UNCHANGED <<archive, fileBytes, adopted, fileClosed, lifecycleVars, convert>>

\* what every reader does around its body: closed() before, _remember_position around it
Step(block, r, next) ==
    /\ blocksRead' = Append(blocksRead, block)
    /\ closedFlag' = Closed(closedFlag, fileClosed)
    /\ filePos' = RememberPosition(filePos, r.pos, r.err)
    /\ pc' = IF r.err = ErrNone THEN next ELSE "failed"
    /\ ctorErr' = r.err
    /\ UNCHANGED <<archive, fileBytes, adopted, fileClosed, lifecycleVars, convert>>

StepHeader ==
    /\ pc = "header"
    /\ LET r == ReadHeader(fileBytes, filePos, fileClosed)
       IN  /\ Step("header", r, "offsets")
           /\ header' = r.value
    /\ UNCHANGED <<offsets, protection, directory>>

StepOffsets ==
    /\ pc = "offsets"
    /\ LET r == ReadOffsets(fileBytes, filePos, fileClosed)
       IN  /\ Step("offsets", r, "protection")
           /\ offsets' = r.value
    /\ UNCHANGED <<header, protection, directory>>

StepProtection ==
    /\ pc = "protection"
    /\ LET r == ReadProtection(fileBytes, filePos, fileClosed)
       IN  /\ Step("protection", r, "directory")
           /\ protection' = r.value
    /\ UNCHANGED <<header, offsets, directory>>

StepDirectory ==
    /\ pc = "directory"
    /\ LET r == ReadDirectory(fileBytes, filePos, fileClosed, offsets.directory_offset)
       IN  /\ Step("directory", r, "ready")
           /\ directory' = r.value
    /\ UNCHANGED <<header, offsets, protection>>

\* AffinityFile.__init__(file, mode) up to the call of _populate_info.  A
\* handle is adopted whatever the mode; a path is opened 'rb' for mode 'r'
\* and 'wb' for mode 'w', which truncates the file: _read_header then seeks
\* to 0 and its first read raises, and the constructor with it; any other
\* mode raises before a file is opened.
Construct(mode) ==
    /\ pc = "init"
    /\ IF adopted \/ mode = "r"
       THEN /\ pc' = "header"
            /\ UNCHANGED <<fileBytes, filePos, ctorErr, blocksRead>>
       ELSE IF mode = "w"
       THEN /\ fileBytes' = <<>>
            /\ filePos' = RememberPosition(0, HeaderOffset, ErrNotReadable)
            /\ blocksRead' = Append(blocksRead, "header")
            /\ ctorErr' = ErrNotReadable
            /\ pc' = "failed"
       ELSE /\ ctorErr' = ErrInvalidMode
            /\ pc' = "failed"
            /\ UNCHANGED <<fileBytes, filePos, blocksRead>>
    /\ UNCHANGED <<archive, adopted, fileClosed, header, offsets, protection, directory,
                   closedFlag, lifecycleVars, convert>>

\* AffinityFile.__del__ of a container whose construction failed: close()
Del ==
    /\ pc = "failed"
    /\ pc' = "deleted"
    /\ closedFlag' = TRUE
    /\ fileClosed' = CloseHandle(refcount, fileClosed)
    /\ UNCHANGED <<archive, fileBytes, adopted, filePos, ctorErr, blocksRead,
                   header, offsets, protection, directory, lifecycleVars, convert>>

\* the owner of an adopted handle closes it, before or after the construction
ExternalClose ==
    /\ adopted
    /\ pc \in {"header", "ready"}
    /\ ~fileClosed
    /\ fileClosed' = TRUE
    /\ lastOp' = Call("external_close", <<>>, "", 0, ErrNone, <<>>)
    /\ UNCHANGED <<archive, fileBytes, adopted, filePos, pc, ctorErr, blocksRead,
                   header, offsets, protection, directory, closedFlag, refcount, streams, convert>>

(***************************************************************************)
(* The public calls on a constructed container and on its streams          *)
(***************************************************************************)
ctorVars == <<archive, fileBytes, adopted, pc, ctorErr, blocksRead,
              header, offsets, protection, directory>>

\* an open() that counts the stream before it has looked the name up
OpenCountsFirst(name, mode) ==
    /\ pc = "ready"
    /\ LET entries == directory.file_entries
           err == OpenError(name, mode, closedFlag, fileClosed, entries)
       IN  /\ err = ErrNone => Len(streams) < MaxStreams
           /\ closedFlag' = IF mode \in {"r", "w"} THEN Closed(closedFlag, fileClosed)
                            ELSE closedFlag
           /\ refcount' = IF err \in {ErrNone, ErrNotFound} THEN Acquire(refcount) ELSE refcount
           /\ IF err = ErrNone
              THEN /\ streams' = Append(streams, NewStream(entries[FindEntry(entries, name)]))
                   /\ lastOp' = Call("open", name, mode, Len(streams) + 1, err, <<>>)
              ELSE /\ UNCHANGED streams
                   /\ lastOp' = Call("open", name, mode, 0, err, <<>>)
    /\ UNCHANGED <<ctorVars, convert, filePos, fileClosed>>

\* AffinityFile.open(name, mode)
Open(name, mode) ==
    /\ pc = "ready"
    /\ LET entries == directory.file_entries
           err == OpenError(name, mode, closedFlag, fileClosed, entries)
       IN  /\ err = ErrNone => Len(streams) < MaxStreams
           /\ closedFlag' = IF mode \in {"r", "w"} THEN Closed(closedFlag, fileClosed)
                            ELSE closedFlag
           /\ IF err = ErrNone
              THEN /\ refcount' = Acquire(refcount)
                   /\ streams' = Append(streams, NewStream(entries[FindEntry(entries, name)]))
                   /\ lastOp' = Call("open", name, mode, Len(streams) + 1, err, <<>>)
              ELSE /\ UNCHANGED <<refcount, streams>>
                   /\ lastOp' = Call("open", name, mode, 0, err, <<>>)
    /\ UNCHANGED <<ctorVars, convert, filePos, fileClosed>>

\* AffinityFile.close()
Close ==
    /\ pc = "ready"
    /\ closedFlag' = TRUE
    /\ fileClosed' = CloseHandle(refcount, fileClosed)
    /\ lastOp' = Call("close", <<>>, "", 0, ErrNone, <<>>)
    /\ UNCHANGED <<ctorVars, convert, filePos, refcount, streams>>

\* AffinityExtFile.close() of stream s, and AffinityFile._close, which it calls
StreamClose(s) ==
    /\ pc = "ready"
    /\ s \in 1..Len(streams)
    /\ IF streams[s].released
       THEN UNCHANGED <<refcount, fileClosed, streams>>
       ELSE /\ refcount' = Release(refcount)
            /\ fileClosed' = IF closedFlag THEN CloseHandle(refcount', fileClosed)
                             ELSE fileClosed
            /\ streams' = [streams EXCEPT ![s].released = TRUE]
    /\ lastOp' = Call("stream_close", <<>>, "", s, ErrNone, <<>>)
    /\ UNCHANGED <<ctorVars, convert, filePos, closedFlag>>

\* AffinityExtFile.read(n) on stream s
StreamRead(s, n) ==
    /\ pc = "ready"
    /\ s \in 1..Len(streams)
    /\ LET st == streams[s]
           err == StreamError(st, fileClosed)
       IN  IF err # ErrNone
           THEN /\ lastOp' = Call("stream_read", <<>>, "", s, err, <<>>)
                /\ UNCHANGED <<streams, filePos>>
           ELSE /\ lastOp' = Call("stream_read", <<>>, "", s, ErrNone, PeekData(fileBytes, st, n))
                /\ filePos' = RememberPosition(filePos, PeekTell(fileBytes, st, n), ErrNone)
                /\ streams' = [streams EXCEPT ![s].position = st.position + ReadCount(st, n)]
    /\ UNCHANGED <<ctorVars, convert, fileClosed, closedFlag, refcount>>

\* AffinityExtFile.peek(n) on stream s
StreamPeek(s, n) ==
    /\ pc = "ready"
    /\ s \in 1..Len(streams)
    /\ LET st == streams[s]
           err == StreamError(st, fileClosed)
       IN  /\ lastOp' = Call("stream_peek", <<>>, "", s, err,
                              IF err = ErrNone THEN PeekData(fileBytes, st, n) ELSE <<>>)
           /\ filePos' = IF err = ErrNone
                         THEN RememberPosition(filePos, PeekTell(fileBytes, st, n), ErrNone)
                         ELSE filePos
    /\ UNCHANGED <<ctorVars, convert, fileClosed, closedFlag, refcount, streams>>

\* AffinityExtFile.seek(offset, whence) on stream s; the call is recorded with
\* its arguments <<offset, whence>> and the position it returned
StreamSeek(s, offset, whence) ==
    /\ pc = "ready"
    /\ s \in 1..Len(streams)
    /\ LET st == streams[s]
           err == SeekError(st, fileClosed, whence)
       IN  IF err # ErrNone
           THEN /\ lastOp' = Call("stream_seek", <<offset, whence>>, "", s, err, <<>>)
                /\ UNCHANGED streams
           ELSE /\ streams' = [streams EXCEPT ![s].position = SeekPosition(st, offset, whence)]
                /\ lastOp' = Call("stream_seek", <<offset, whence>>, "", s, ErrNone,
                                  <<SeekPosition(st, offset, whence)>>)
    /\ UNCHANGED <<ctorVars, convert, filePos, fileClosed, closedFlag, refcount>>

\* AffinityExtFile.tell() on stream s; the call is recorded with the position it returned
StreamTell(s) ==
    /\ pc = "ready"
    /\ s \in 1..Len(streams)
    /\ LET st == streams[s]
       IN  lastOp' = IF StreamClosed(st, fileClosed)
                     THEN Call("stream_tell", <<>>, "", s, ErrClosed, <<>>)
                     ELSE Call("stream_tell", <<>>, "", s, ErrNone, <<st.position>>)
    /\ UNCHANGED <<ctorVars, convert, filePos, fileClosed, closedFlag, refcount, streams>>

\* a read(name) that never releases the stream it opened
ReadNameLeaks(name) ==
    /\ pc = "ready"
    /\ LET entries == directory.file_entries
           err == OpenError(name, "r", closedFlag, fileClosed, entries)
           st == NewStream(entries[FindEntry(entries, name)])
       IN  /\ closedFlag' = Closed(closedFlag, fileClosed)
           /\ IF err # ErrNone
              THEN /\ lastOp' = Call("read", name, "r", 0, err, <<>>)
                   /\ UNCHANGED <<refcount, filePos>>
              ELSE /\ lastOp' = Call("read", name, "r", 0, ErrNone, PeekData(fileBytes, st, -1))
                   /\ filePos' = RememberPosition(filePos, PeekTell(fileBytes, st, -1), ErrNone)
                   /\ refcount' = Acquire(refcount)
    /\ UNCHANGED <<ctorVars, convert, fileClosed, streams>>

\* AffinityFile.read(name): with self.open(name, "r") as file: return file.read()
ReadName(name) ==
    /\ pc = "ready"
    /\ LET entries == directory.file_entries
           err == OpenError(name, "r", closedFlag, fileClosed, entries)
           st == NewStream(entries[FindEntry(entries, name)])
       IN  /\ closedFlag' = Closed(closedFlag, fileClosed)
           /\ IF err # ErrNone
              THEN /\ lastOp' = Call("read", name, "r", 0, err, <<>>)
                   /\ UNCHANGED <<refcount, fileClosed, filePos>>
              ELSE /\ lastOp' = Call("read", name, "r", 0, ErrNone, PeekData(fileBytes, st, -1))
                   /\ filePos' = RememberPosition(filePos, PeekTell(fileBytes, st, -1), ErrNone)
                   /\ refcount' = Release(Acquire(refcount))
                   /\ fileClosed' = IF closedFlag' THEN CloseHandle(refcount', fileClosed)
                                    ELSE fileClosed
    /\ UNCHANGED <<ctorVars, convert, streams>>

(***************************************************************************)
(* Specifications                                                          *)
(***************************************************************************)
NextCtor ==
    \/ StepHeader
    \/ StepOffsets
    \/ StepProtection
    \/ StepDirectory
    \/ Del
    \/ ExternalClose

Next ==
    \/ NextCtor
    \/ \E name \in Names, mode \in Modes : Open(name, mode)
    \/ Close
    \/ \E s \in 1..MaxStreams : StreamClose(s)
    \/ \E s \in 1..MaxStreams, n \in ReadSizes : StreamRead(s, n)
    \/ \E s \in 1..MaxStreams, n \in PeekSizes : StreamPeek(s, n)
    \/ \E name \in Names : ReadName(name)

\* the archives whose containers are followed through their lifecycle
LifecycleLayouts ==
    { GoodLayout,
      WithEntries(<<EntryA>>),
      [GoodLayout EXCEPT !.magic = <<0, 0, 0, 0>>] }

\* the archives whose entries are read: raw entries, a wrong local tag, and
\* entries declared with each compression algorithm
PayloadLayouts ==
    { GoodLayout,
      WithVariant(CONTAINER_TAG_FAT, 1),
      [GoodLayout EXCEPT !.protTag = <<80, 114, 111, 117>>],
      WithEntries(<<[EntryA EXCEPT !.localTag = <<35, 70, 105, 109>>], EntryB>>),
      WithEntries(<<EntryA, EntryZ(1)>>),
      WithEntries(<<EntryZ(2), EntryA>>),
      WithEntries(<<EntryA, EntryZ(3)>>) }

Init == InitOn(LifecycleLayouts)
InitRead == InitOn(PayloadLayouts)
InitCtor == InitOn(Layouts)

\* the container before its constructor has opened the file
InitMode == InitAt(LifecycleLayouts, "init")

\* the constructor called with each mode, then the public calls
NextMode ==
    \/ \E mode \in Modes : Construct(mode)
    \/ Next

\* the archive whose two entries are read in pieces
StreamLayouts == { GoodLayout }

InitStream == InitOn(StreamLayouts)

\* the construction, open() of "a" and "b", then reads of PartialSizes bytes,
\* peeks, seeks, tells and releases on the streams, in any order
NextStream ==
    \/ StepHeader
    \/ StepOffsets
    \/ StepProtection
    \/ StepDirectory
    \/ \E name \in {NameA, NameB} : Open(name, "r")
    \/ \E s \in 1..MaxStreams, n \in PartialSizes :
          /\ s <= Len(streams)
          /\ n >= 0 => streams[s].position + n <= MaxPosition
          /\ StreamRead(s, n)
    \/ \E s \in 1..MaxStreams, n \in PeekSizes : StreamPeek(s, n)
    \/ \E s \in 1..MaxStreams, offset \in SeekOffsets, whence \in Whences :
          StreamSeek(s, offset, whence)
    \/ \E s \in 1..MaxStreams : StreamTell(s)
    \/ \E s \in 1..MaxStreams : StreamClose(s)

(***************************************************************************)
(* The conversion test (test/convert.py main) on one ACO file: read the    *)
(* file, write the palette in the same format, read the written file.      *)
(***************************************************************************)
\* data = read_file(filepath): read_aco opens the file and enters read_tables
ReadFile ==
    /\ convert.pc = "start"
    /\ convert' = [convert EXCEPT !.pc = "reading", !.stream = convert.file, !.pos = 0,
                                  !.remaining = 0, !.table = <<>>, !.swatches = <<>>]
    /\ UNCHANGED <<ctorVars, filePos, fileClosed, closedFlag, lifecycleVars>>

\* rewritten = read_file(".../{name}{suffix}"): the same, on the file written
RereadFile ==
    /\ convert.pc = "written"
    /\ convert' = [convert EXCEPT !.pc = "rereading", !.stream = convert.written, !.pos = 0,
                                  !.remaining = 0, !.table = <<>>, !.swatches = <<>>]
    /\ UNCHANGED <<ctorVars, filePos, fileClosed, closedFlag, lifecycleVars>>

\* read_tables calls parse_table: at the end of the file the loop breaks and
\* read_aco returns Palette(swatches=swatches); otherwise the table header is
\* decoded and the table replaces the swatches once its last swatch is parsed
StepParseTable ==
    /\ convert.pc \in {"reading", "rereading"}
    /\ convert.remaining = 0
    /\ LET r == ParseTable(convert.stream, convert.pos)
           palette == Palette(None, <<>>, convert.swatches)
       IN  convert' =
               IF r.err # ErrNone THEN [convert EXCEPT !.pc = "failed"]
               ELSE IF ~r.table
               THEN IF convert.pc = "reading"
                    THEN [convert EXCEPT !.pc = "read", !.data = palette]
                    ELSE [convert EXCEPT !.pc = "compared", !.rewritten = palette]
               ELSE [convert EXCEPT !.pos = r.pos, !.version = r.version,
                                    !.remaining = r.length, !.table = <<>>,
                                    !.swatches = IF r.length = 0 THEN <<>> ELSE @]
    /\ UNCHANGED <<ctorVars, filePos, fileClosed, closedFlag, lifecycleVars>>

\* one parse_swatch(stream, version) of parse_table's list comprehension
StepParseSwatch ==
    /\ convert.pc \in {"reading", "rereading"}
    /\ convert.remaining > 0
    /\ LET r == ParseSwatch(convert.stream, convert.pos, convert.version)
           table == Append(convert.table, r.swatch)
       IN  convert' =
               IF r.err # ErrNone THEN [convert EXCEPT !.pc = "failed"]
               ELSE [convert EXCEPT !.pos = r.pos, !.remaining = @ - 1, !.table = table,
                                    !.swatches = IF convert.remaining = 1 THEN table ELSE @]
    /\ UNCHANGED <<ctorVars, filePos, fileClosed, closedFlag, lifecycleVars>>

\* write_file(".../{name}{format}", data) for the format of the file read
WriteFile ==
    /\ convert.pc = "read"
    /\ convert' = [convert EXCEPT !.pc = "written", !.written = WriteAco(convert.data)]
    /\ UNCHANGED <<ctorVars, filePos, fileClosed, closedFlag, lifecycleVars>>

\* no container is involved in a conversion
NoContainer ==
    /\ archive = GoodLayout
    /\ fileBytes = <<>>
    /\ adopted = FALSE
    /\ filePos = 0
    /\ fileClosed = TRUE
    /\ pc = "none"
    /\ ctorErr = ErrNone
    /\ blocksRead = <<>>
    /\ header = NoHeader
    /\ offsets = NoOffsets
    /\ protection = NoProtection
    /\ directory = NoDirectory
    /\ closedFlag = TRUE
    /\ refcount = 0
    /\ streams = <<>>
    /\ lastOp = NoOp

\* main with one of the ACO files as its test resource
InitCodec ==
    /\ NoContainer
    /\ \E file \in AcoFiles : convert = [NoConversion EXCEPT !.pc = "start", !.file = file]

NextCodec ==
    \/ ReadFile
    \/ StepParseTable
    \/ StepParseSwatch
    \/ WriteFile
    \/ RereadFile

\* the conversion test on every ACO file of AcoFiles
SpecCodec == InitCodec /\ [][NextCodec]_vars

\* the lifecycle of a container and its streams
Spec == Init /\ [][Next]_vars

\* interleaved partial reads on the streams of one container
SpecStream == InitStream /\ [][NextStream]_vars

\* the same, from the call of the constructor with a mode
SpecMode == InitMode /\ [][NextMode]_vars

\* the same calls, on the archives of PayloadLayouts
SpecRead == InitRead /\ [][Next]_vars

\* the construction alone, over every archive of Layouts
SpecCtor == InitCtor /\ [][NextCtor]_vars

(***************************************************************************)
(* Properties of the lifecycle (specification Spec)                        *)
(***************************************************************************)
\* the streams returned by open() and not yet released
OpenStreams == {s \in 1..Len(streams) : ~streams[s].released}

\* C1: while close() has been called and a stream returned by open() is not
\* yet released, no call on the container or on a stream releases the file
\* handle as long as an unreleased stream remains, and every open() with an
\* accepted mode fails with Closed and creates no stream.
C1_DeferredRelease ==
    [][ /\ (fileClosed' # fileClosed /\ lastOp'.op # "external_close") => OpenStreams' = {}
        /\ (closedFlag /\ OpenStreams # {} /\ lastOp'.op = "open" /\ lastOp'.mode \in {"r", "w"})
             => (lastOp'.err = ErrClosed /\ streams' = streams /\ refcount' = refcount) ]_vars

\* close() was called with two streams open, one is released since, the handle
\* is still open, and an open() in between has just failed with Closed
C1_Witness ==
    /\ closedFlag /\ ~fileClosed
    /\ Len(streams) = 2 /\ Cardinality(OpenStreams) = 1
    /\ lastOp.op = "open" /\ lastOp.mode = "r" /\ lastOp.err = ErrClosed

\* C2: once close() has been called and every stream is released, the file
\* handle is released, whatever the order of close() and the releases.
C2_ReleasedAtLast == (closedFlag /\ OpenStreams = {}) => fileClosed

\* close() came first, then stream 2 was released, then stream 1: the handle
\* was opened by path, so nobody but the container can have closed it
C2_Witness ==
    /\ ~adopted /\ closedFlag /\ fileClosed
    /\ Len(streams) = 2 /\ OpenStreams = {}
    /\ lastOp.op = "stream_close" /\ lastOp.stream = 1

\* C3: the open-stream count equals the number of streams opened and not yet
\* released, and is never negative; a successful open() raises it by one, the
\* first close() of a stream lowers it by one, a further close() of the same
\* stream and read(name) leave it as it was.
C3_RefcountMatches ==
    /\ [](refcount = Cardinality(OpenStreams) /\ refcount >= 0)
    /\ [][ /\ (lastOp'.op = "open" /\ lastOp'.err = ErrNone) => refcount' = refcount + 1
           /\ (lastOp'.op = "stream_close" /\ lastOp'.stream \in OpenStreams)
                => refcount' = refcount - 1
           /\ (lastOp'.op = "stream_close" /\ lastOp'.stream \notin OpenStreams)
                => refcount' = refcount
           /\ lastOp'.op \in {"read", "close", "stream_read", "stream_peek"}
                => refcount' = refcount ]_vars

\* two streams were opened, one is released, close() was called, and a
\* read(name) has just been refused
C3_Witness ==
    /\ refcount = 1 /\ Len(streams) = 2 /\ streams[1].released /\ ~streams[2].released
    /\ closedFlag /\ lastOp.op = "read"

\* C4: open(name) on a container that is not closed fails with NotFound when
\* no entry has exactly that filename; open(name) after close() fails with
\* Closed for every name; neither creates a stream.
C4_OpenErrors ==
    [][ \A name \in Names :
          (lastOp'.op = "open" /\ lastOp'.name = name /\ lastOp'.mode = "r") =>
             /\ closedFlag =>
                  (lastOp'.err = ErrClosed /\ streams' = streams /\ refcount' = refcount)
             /\ (~closedFlag /\ ~fileClosed
                 /\ \A i \in 1..Len(directory.file_entries) :
                       directory.file_entries[i].filename # name) =>
                  (lastOp'.err = ErrNotFound /\ streams' = streams /\ refcount' = refcount)
      ]_vars

\* open("A") has just failed with NotFound on a container that holds "a"
C4_Witness ==
    /\ lastOp.op = "open" /\ lastOp.name = NameUpperA /\ lastOp.err = ErrNotFound
    /\ FindEntry(directory.file_entries, NameA) # 0
    /\ ~closedFlag

(***************************************************************************)
(* Properties of what open() and read() return (specification SpecRead)    *)
(***************************************************************************)
\* the entry the last call was about: the one read(name) looked up, or the
\* one the stream was opened on
LastInfo ==
    IF lastOp.op \in {"read", "open"}
    THEN directory.file_entries[FindEntry(directory.file_entries, lastOp.name)]
    ELSE streams[lastOp.stream].info

\* the entry of the archive layout whose payload block lies at that offset
LayoutEntry(info) ==
    archive.entries[CHOOSE k \in 1..Len(archive.entries) : PayloadOffset(archive, k) = info.offset]

\* the last call named or read an entry of the directory
LastHasEntry ==
    /\ pc = "ready"
    /\ \/ lastOp.op \in {"read", "open"} /\ FindEntry(directory.file_entries, lastOp.name) # 0
       \/ lastOp.op = "stream_read"

\* the compression algorithm of an entry: the low 2 bits of its packed byte
Algorithm(e) == e.compression % 4

\* C5: with a raw entry whose payload block is the local tag followed by the
\* payload, read(name), and a stream's full read from its start, return
\* exactly the payload bytes that follow the tag.
C5_RawRoundTrip ==
    (/\ LastHasEntry
     /\ lastOp.op \in {"read", "stream_read"} /\ lastOp.err = ErrNone /\ lastOp.data # <<>>
     /\ LayoutEntry(LastInfo).localTag = CONTAINER_TAG_FIL
     /\ Algorithm(LayoutEntry(LastInfo)) = 0)
    => lastOp.data = LayoutEntry(LastInfo).stored

\* C6: open(name) on a container that is not closed, for an entry whose 4
\* bytes at entry.offset are not the file tag, fails with CorruptEntry and
\* returns no stream.
C6_LocalTagChecked ==
    (/\ LastHasEntry
     /\ lastOp.op = "open" /\ lastOp.mode = "r" /\ ~closedFlag
     /\ FileRead(fileBytes, LastInfo.offset, 4) # CONTAINER_TAG_FIL)
    => (lastOp.err = ErrCorruptEntry /\ lastOp.stream = 0)

\* C7: read(name) on a container that is not closed dispatches on the
\* entry's algorithm: 0, 1 and 2 return size_original bytes (for 0 the stored
\* bytes, which C5 states), any other value fails with UnsupportedCompression.
C7_CompressionDispatch ==
    (/\ LastHasEntry
     /\ lastOp.op = "read" /\ ~closedFlag
     /\ LayoutEntry(LastInfo).localTag = CONTAINER_TAG_FIL)
    => LET e == LayoutEntry(LastInfo)
       IN  /\ Algorithm(e) \notin {0, 1, 2} => lastOp.err = ErrUnsupportedCompression
           /\ Algorithm(e) \in {0, 1, 2} =>
                 (lastOp.err = ErrNone /\ Len(lastOp.data) = e.sizeOriginal)

(***************************************************************************)
(* Properties of the construction (specification SpecCtor)                 *)
(***************************************************************************)
\* the construction has returned or raised
Constructed == pc \in {"ready", "failed", "deleted"}

\* the handle was open when the construction began
OpenAtConstruction == ctorErr # ErrClosed

\* the bytes the first n records of the layout take in the entry table
RECURSIVE RecordsLength(_, _)
RecordsLength(L, n) == IF n = 0 THEN 0 ELSE RecordsLength(L, n - 1) + RecordLength(L, n)

\* the three fixed blocks of the layout are as the readers expect them
FixedBlocksGood(L) ==
    /\ L.magic = ToBytesLE(CONTAINER_MAGIC, 4)
    /\ L.infTag = CONTAINER_TAG_INF
    /\ L.protTag = CONTAINER_TAG_PROT

\* C8: when table_length is smaller than the bytes the table_count records
\* take, the construction fails with CorruptDirectory and exposes no entries.
C8_TableLengthEnforced ==
    (/\ Constructed /\ OpenAtConstruction
     /\ FixedBlocksGood(archive)
     /\ archive.tableCount <= Len(archive.entries)
     /\ archive.tableLength < RecordsLength(archive, archive.tableCount))
    => (pc # "ready" /\ ctorErr = ErrCorruptDirectory /\ directory = NoDirectory)

\* C9: after a successful construction infolist() and namelist() hold exactly
\* table_count entries, the i-th of them decoded from the i-th record of the
\* directory.
C9_ListingMatchesTable ==
    pc = "ready" =>
        /\ Len(InfoList(directory)) = archive.tableCount
        /\ Len(NameList(directory)) = archive.tableCount
        /\ \A i \in 1..Len(InfoList(directory)) :
              (i <= Len(archive.entries) /\ archive.cut = 0) =>
                 /\ InfoList(directory)[i].index = i - 1
                 /\ InfoList(directory)[i].offset = PayloadOffset(archive, i)
                 /\ InfoList(directory)[i].size_stored = Len(archive.entries[i].stored)
                 /\ InfoList(directory)[i].filename = Utf8Decode(archive.entries[i].name)
                 /\ NameList(directory)[i] = Utf8Decode(archive.entries[i].name)

\* the container of an archive that lists "b" before "a" is constructed
C9_Witness ==
    /\ pc = "ready"
    /\ archive.entries = <<EntryB, EntryA>>
    /\ NameList(directory) = <<NameB, NameA>>

\* the readers in the order _populate_info calls them
BlockOrder == <<"header", "offsets", "protection", "directory">>

\* the first block of the layout a reader rejects (4 when it can only be the directory)
FirstBadBlock(L) ==
    IF L.magic # ToBytesLE(CONTAINER_MAGIC, 4) THEN 1
    ELSE IF L.infTag # CONTAINER_TAG_INF THEN 2
    ELSE IF L.protTag # CONTAINER_TAG_PROT THEN 3
    ELSE 4

\* C10: the readers are entered in the order header, offsets, protection,
\* directory; the first one that fails ends the construction: no later block
\* is read or decoded and no container is returned; a wrong magic fails with
\* InvalidMagic when only the header has been read.
C10_ConstructionOrder ==
    /\ [](/\ blocksRead = SubSeq(BlockOrder, 1, Len(blocksRead))
          /\ pc = "ready" => (blocksRead = BlockOrder /\ ctorErr = ErrNone)
          /\ ctorErr # ErrNone => pc \in {"failed", "deleted"}
          /\ pc \in {"failed", "deleted"} =>
                /\ ctorErr # ErrNone
                /\ OpenAtConstruction => Len(blocksRead) = FirstBadBlock(archive)
                /\ Len(blocksRead) < 4 => directory = NoDirectory
                /\ Len(blocksRead) < 3 => protection = NoProtection
                /\ Len(blocksRead) < 2 => offsets = NoOffsets
                /\ streams = <<>> /\ lastOp.op \in {"none", "external_close"}
          /\ (Constructed /\ OpenAtConstruction /\ archive.magic # ToBytesLE(CONTAINER_MAGIC, 4)) =>
                (pc # "ready" /\ ctorErr = ErrInvalidMagic /\ blocksRead = <<"header">>))
    /\ [][(pc \in {"failed", "deleted"})
             => (pc' \in {"failed", "deleted"} /\ blocksRead' = blocksRead)]_vars

\* the magic and the offsets tag are both wrong: the construction has failed
\* with InvalidMagic and only the header has been read
C10_Witness ==
    /\ pc = "failed" /\ ctorErr = ErrInvalidMagic /\ blocksRead = <<"header">>
    /\ archive.infTag # CONTAINER_TAG_INF

(***************************************************************************)
(* Properties of the shared cursor                                         *)
(***************************************************************************)
\* the step is a block reader of the construction that returned
ReaderReturned == pc' # pc /\ pc' \in {"offsets", "protection", "directory", "ready"}

\* the step is a block reader of the construction that raised
ReaderRaised == pc' # pc /\ pc' = "failed"

\* C12: a block reader of the construction that returns, and a stream's
\* peek() or read() (and read(name), which reads through a stream) that
\* returns, leave the cursor of the shared handle where it was before.
C12_CursorRestored ==
    [][ /\ ReaderReturned => filePos' = filePos
        /\ (lastOp'.op \in {"stream_read", "stream_peek", "read"} /\ lastOp'.err = ErrNone)
             => filePos' = filePos ]_vars

\* a stream on a handle adopted with its cursor at 5 has just returned the
\* bytes of its entry, and the cursor is at 5
C12_Witness ==
    /\ adopted /\ pc = "ready" /\ filePos = 5
    /\ lastOp.op = "stream_read" /\ lastOp.err = ErrNone /\ lastOp.data # <<>>

\* C13: a block reader that raises leaves the cursor of the shared handle
\* where it was when the reader was entered.
C13_CursorRestoredOnFailure ==
    [][ReaderRaised => filePos' = filePos]_vars

(***************************************************************************)
(* Properties of open() in write mode and of failed calls                  *)
(***************************************************************************)
\* the step is an open(name, mode = "w")
OpensForWriting == lastOp'.op = "open" /\ lastOp'.mode = "w"

\* the step creates no stream and leaves the open-stream count as it was
NoStreamCreated == streams' = streams /\ refcount' = refcount

\* C14 as stated: every open(name, mode = "w") fails with
\* UnsupportedOperation, creates no stream and leaves the open-stream count
\* unchanged.
C14_WriteAlwaysUnsupported ==
    [][OpensForWriting => (lastOp'.err = ErrUnsupportedOperation /\ NoStreamCreated)]_vars

\* C14 as amended: open(name, mode = "w") on a container that is not closed
\* fails with UnsupportedOperation, whether or not the name exists; on a
\* closed container it fails with Closed; neither creates a stream nor
\* changes the open-stream count.
C14_WriteUnsupported ==
    [][OpensForWriting =>
          /\ ~Closed(closedFlag, fileClosed) => lastOp'.err = ErrUnsupportedOperation
          /\ Closed(closedFlag, fileClosed) => lastOp'.err = ErrClosed
          /\ NoStreamCreated ]_vars

\* with a stream open on "a", open("a", "w") has just failed with
\* UnsupportedOperation and the stream is still the only one
C14_Witness ==
    /\ lastOp.op = "open" /\ lastOp.mode = "w" /\ lastOp.name = NameA
    /\ lastOp.err = ErrUnsupportedOperation
    /\ FindEntry(directory.file_entries, NameA) # 0
    /\ Len(streams) = 1 /\ refcount = 1 /\ ~closedFlag

\* the failed call of C17: the name was not found, or write mode was requested
FailedLocally(call) ==
    call.op \in {"open", "read"} /\ call.err \in {ErrNotFound, ErrUnsupportedOperation}

\* C17: an open() or read() that fails with NotFound or UnsupportedOperation
\* leaves the closed flag, the open-stream count, the directory, the cursor
\* and the streams as they were; an open() of an existing entry that follows
\* it returns a stream, and a read() on an open stream that follows it
\* returns the rest of that stream's bytes.
C17_FailedCallIsLocal ==
    [][ /\ FailedLocally(lastOp') =>
             /\ closedFlag' = closedFlag /\ refcount' = refcount /\ directory' = directory
             /\ filePos' = filePos /\ fileClosed' = fileClosed /\ streams' = streams
        /\ (/\ FailedLocally(lastOp)
            /\ lastOp'.op = "open" /\ lastOp'.mode = "r"
            /\ FindEntry(directory.file_entries, lastOp'.name) # 0) =>
              (lastOp'.err = ErrNone /\ Len(streams') = Len(streams) + 1)
        /\ (/\ FailedLocally(lastOp)
            /\ lastOp'.op = "stream_read" /\ lastOp'.stream \in OpenStreams) =>
              LET st == streams[lastOp'.stream]
              IN  /\ lastOp'.err = ErrNone
                  /\ lastOp'.data = FileRead(fileBytes, st.info.offset + st.position,
                                             st.info.size_original - st.position)
      ]_vars

\* read("A") has just failed with NotFound on a container with one open
\* stream, built on a handle adopted with its cursor at 5
C17_Witness ==
    /\ lastOp.op = "read" /\ lastOp.name = NameUpperA /\ lastOp.err = ErrNotFound
    /\ adopted /\ filePos = 5 /\ ~closedFlag /\ ~fileClosed
    /\ refcount = 1 /\ Len(streams) = 1 /\ streams[1].position = 0

(***************************************************************************)
(* The lifecycle as a state machine                                        *)
(***************************************************************************)
\* the container is closed: close() was called or closed() found the handle
\* closed (_closed is set), or the handle is closed
IsClosed == closedFlag \/ fileClosed

\* Open: the container is not closed; Closing: it is, and the handle is not
\* released; Closed: the handle is released
ContainerState ==
    IF ~IsClosed THEN "Open"
    ELSE IF ~fileClosed THEN "Closing"
    ELSE "Closed"

LifecycleMoves ==
    { <<"Open", "Open">>, <<"Open", "Closing">>, <<"Open", "Closed">>,
      <<"Closing", "Closing">>, <<"Closing", "Closed">>, <<"Closed", "Closed">> }

\* stream s cannot be read: it is released, or the handle is
Unusable(s) == StreamError(streams[s], fileClosed) # ErrNone

\* C16: once the container is closed it stays closed, a released handle
\* stays released, a released or unusable stream stays so, and the container
\* moves only Open -> Closing (with open streams), Open -> Closed,
\* Closing -> Closed.
C16_Irreversible ==
    [][ /\ IsClosed => IsClosed'
        /\ fileClosed => fileClosed'
        /\ \A s \in 1..Len(streams) :
              /\ s \in 1..Len(streams')
              /\ streams[s].released => streams'[s].released
              /\ Unusable(s) => Unusable(s)'
        /\ <<ContainerState, ContainerState'>> \in LifecycleMoves
        /\ ContainerState' = "Closing" => refcount' > 0
      ]_vars

\* the container went through Closing to Closed, and a read on its released
\* stream has just been refused
C16_Witness ==
    /\ ~adopted /\ ContainerState = "Closed" /\ closedFlag
    /\ Len(streams) = 1 /\ streams[1].released
    /\ lastOp.op = "stream_read" /\ lastOp.err # ErrNone

(***************************************************************************)
(* Properties of the directory decoder (specification SpecCtor)            *)
(***************************************************************************)
\* the four directory tags in use
RecognizedTags == {CONTAINER_TAG_FAT, CONTAINER_TAG_FT2, CONTAINER_TAG_FT3, CONTAINER_TAG_FT4}

\* the ranking V1 < V2 < V3 < V4 of the four tags
VariantRank(tag) ==
    CASE tag = CONTAINER_TAG_FAT -> 1
      [] tag = CONTAINER_TAG_FT2 -> 2
      [] tag = CONTAINER_TAG_FT3 -> 3
      [] tag = CONTAINER_TAG_FT4 -> 4

\* C18: on the four tags in use, the comparison of the entry decoder agrees
\* with the ranking V1 < V2 < V3 < V4; an entry decoded under one of them has
\* a version exactly for #FT2, #FT3 and #FT4 and two checksums exactly for
\* #FT4, one otherwise, each field holding what the record holds.
C18_TagOrderIsRanking ==
    /\ \A s \in RecognizedTags, t \in RecognizedTags :
          StrGeq(s, t) <=> VariantRank(s) >= VariantRank(t)
    /\ (pc = "ready" /\ archive.dirTag \in RecognizedTags) =>
          \A i \in 1..Len(directory.file_entries) :
             LET info == directory.file_entries[i]
                 rank == VariantRank(archive.dirTag)
             IN  /\ (info.version # NoVersion) <=> (rank >= 2)
                 /\ (Len(info.checksums) = 2) <=> (rank = 4)
                 /\ (Len(info.checksums) = 1) <=> (rank < 4)
                 /\ (i <= Len(archive.entries) /\ archive.cut = 0) =>
                       /\ rank >= 2 => info.version = archive.entries[i].version
                       /\ info.checksums[1] = archive.entries[i].checksum
                       /\ rank = 4 => info.checksums[2] = archive.entries[i].checksum2
                       /\ info.filename = Utf8Decode(archive.entries[i].name)

\* a directory tagged #FT3 is decoded: its entries have a version and one checksum
C18_Witness ==
    /\ pc = "ready" /\ archive.dirTag = CONTAINER_TAG_FT3
    /\ Len(directory.file_entries) = 2
    /\ directory.file_entries[2].version = 2
    /\ directory.file_entries[2].checksums = <<9>>

\* C19: when the tag at directory_offset is none of the four directory tags,
\* the construction fails and produces no directory.
C19_DirectoryTagValidated ==
    (/\ Constructed /\ OpenAtConstruction
     /\ FixedBlocksGood(archive)
     /\ archive.dirTag \notin RecognizedTags)
    => (pc # "ready" /\ directory = NoDirectory)

\* the file ends before the last of the table_count records does
EndsInsideTable(L) ==
    /\ L.tableCount <= Len(L.entries)
    /\ L.cut > Len(EntryTable(L)) - RecordsLength(L, L.tableCount)

\* one of the table_count records holds a filename that is not UTF-8
HasUndecodableName(L) ==
    \E i \in 1..Min(L.tableCount, Len(L.entries)) : ~Utf8Ok(L.entries[i].name)

\* C20: when a record of the table cannot be decoded, because the file ends
\* inside it or because its filename is not UTF-8, the construction fails
\* with CorruptDirectory and admits no entry.
C20_DecodeFailureIsCorruptDirectory ==
    (/\ Constructed /\ OpenAtConstruction
     /\ FixedBlocksGood(archive)
     /\ EndsInsideTable(archive) \/ HasUndecodableName(archive))
    => (pc # "ready" /\ ctorErr = ErrCorruptDirectory /\ directory = NoDirectory)

(***************************************************************************)
(* The archive file (specification SpecMode)                               *)
(***************************************************************************)
\* C15: no call of the public surface, the constructor in any accepted mode
\* included, changes the bytes or the length of the archive file.
C15_NeverWrites ==
    [][fileBytes' = fileBytes /\ Len(fileBytes') = Len(fileBytes)]_vars

(***************************************************************************)
(* Interleaved reads on two streams (specification SpecStream)             *)
(***************************************************************************)
\* the step is a read() that returned, on a stream of a container that has
\* another stream open on a different entry
InterleavedRead ==
    /\ lastOp'.op = "stream_read" /\ lastOp'.err = ErrNone
    /\ lastOp'.stream \in 1..Len(streams)
    /\ \E t \in 1..Len(streams) : streams[t].info # streams[lastOp'.stream].info

\* a read() on one stream changes no other stream: neither its position nor
\* the bytes its next read returns
OthersUntouched ==
    \A t \in 1..Len(streams) :
       t # lastOp'.stream =>
          /\ streams'[t] = streams[t]
          /\ \A n \in PartialSizes :
                PeekData(fileBytes', streams'[t], n) = PeekData(fileBytes, streams[t], n)

\* C11: with two streams open on two different entries, every read() on one
\* of them returns the next bytes of that entry's own payload, in order, and
\* changes neither the other stream's position nor the bytes its next read
\* returns.
C11_InterleavedReads ==
    [][InterleavedRead =>
          LET s == lastOp'.stream
              e == LayoutEntry(streams[s].info)
          IN  /\ OthersUntouched
              /\ lastOp'.data = SubSeq(e.stored, streams[s].position + 1, streams'[s].position)
       ]_vars

\* the part of C11 about the other stream alone
C11_Isolation == [][InterleavedRead => OthersUntouched]_vars

(***************************************************************************)
(* An externally closed handle, and read(name) (specification Spec)        *)
(***************************************************************************)
\* C21: when the handle is closed, closed() returns true whether or not
\* close() was called, and an open() with an accepted mode, and a read(name),
\* fail with Closed, create no stream and leave the closed flag set.
C21_ClosedHandleIsClosed ==
    /\ [](fileClosed => Closed(closedFlag, fileClosed))
    /\ [][(/\ fileClosed
           /\ \/ lastOp'.op = "open" /\ lastOp'.mode \in {"r", "w"}
              \/ lastOp'.op = "read")
          => (lastOp'.err = ErrClosed /\ closedFlag' /\ NoStreamCreated)]_vars

\* the owner of the handle closed it while a stream was open, so the
\* container cannot have released it itself; an open() has been refused
C21_Witness ==
    /\ adopted /\ fileClosed /\ closedFlag
    /\ refcount = 1 /\ Len(streams) = 1
    /\ lastOp.op = "open" /\ lastOp.mode = "r" /\ lastOp.name = NameA /\ lastOp.err = ErrClosed

\* C22: read(name) returns what a full read on a fresh stream of open(name)
\* returns; whether it returns or raises it leaves the open-stream count and
\* the streams as they were, and it leaves no handle unreleased that close()
\* and the releases of the streams would have released.
C22_ReadIsOpenDrainRelease ==
    [][ /\ lastOp'.op = "read" =>
             /\ refcount' = refcount /\ streams' = streams
             /\ (closedFlag' /\ refcount' = 0) => fileClosed'
             /\ lastOp'.err # ErrNone => lastOp'.data = <<>>
        /\ (/\ lastOp.op = "read" /\ lastOp.err = ErrNone
            /\ lastOp'.op = "stream_read" /\ lastOp'.err = ErrNone
            /\ lastOp'.stream \in 1..Len(streams)
            /\ streams[lastOp'.stream].position = 0
            /\ streams[lastOp'.stream].info.filename = lastOp.name)
           => lastOp'.data = lastOp.data
        /\ (/\ lastOp.op = "stream_read" /\ lastOp.err = ErrNone
            /\ lastOp.stream \in 1..Len(streams)
            /\ streams[lastOp.stream].position = streams[lastOp.stream].info.size_original
            /\ lastOp.data # <<>>
            /\ lastOp'.op = "read" /\ lastOp'.err = ErrNone
            /\ lastOp'.name = streams[lastOp.stream].info.filename)
           => lastOp'.data = lastOp.data
      ]_vars

\* with a stream open on "b", read("a") has just returned the bytes of "a"
\* and the open-stream count is still 1
C22_Witness ==
    /\ lastOp.op = "read" /\ lastOp.name = NameA /\ lastOp.err = ErrNone /\ lastOp.data # <<>>
    /\ refcount = 1 /\ Len(streams) = 1 /\ streams[1].info.filename = NameB
    /\ ~closedFlag /\ ~fileClosed

(***************************************************************************)
(* The entry table (specification SpecCtor)                                *)
(***************************************************************************)
\* C23: in a constructed container the filenames of the entries are pairwise
\* distinct, listdir() has one key per entry, and maps each name to the entry
\* open(name) selects.
C23_FilenamesUnique ==
    pc = "ready" =>
        LET entries == directory.file_entries
        IN  /\ \A i, j \in 1..Len(entries) :
                  i # j => entries[i].filename # entries[j].filename
            /\ Cardinality(DOMAIN ListDir(directory)) = Len(entries)
            /\ \A name \in DOMAIN ListDir(directory) :
                  ListDir(directory)[name] = entries[FindEntry(entries, name)]

\* the records the table is declared to hold are all in the file, with
\* filenames that decode
RecordsAsDeclared(L) ==
    /\ L.cut = 0
    /\ L.tableCount <= Len(L.entries)
    /\ ~HasUndecodableName(L)

\* the cursor has reached the end of the declared table before one of the
\* table_count records is read
ReachesEnd(L) == \E k \in 0..(L.tableCount - 1) : RecordsLength(L, k) >= L.tableLength

\* C25: the directory reader fails with CorruptDirectory exactly when, before
\* one of the table_count records, the cursor has reached or passed the
\* position after the 3 reserved bytes + table_length; so table_count > 0
\* with table_length = 0 always fails and table_count = 0 yields an empty table.
C25_EndOfTableCheck ==
    (Constructed /\ OpenAtConstruction /\ FixedBlocksGood(archive)) =>
        /\ (archive.tableCount > 0 /\ archive.tableLength = 0) =>
              (pc # "ready" /\ ctorErr = ErrCorruptDirectory /\ directory = NoDirectory)
        /\ archive.tableCount = 0 =>
              (pc = "ready" /\ ctorErr = ErrNone /\ directory.file_entries = <<>>)
        /\ RecordsAsDeclared(archive) =>
              /\ ReachesEnd(archive) => (pc # "ready" /\ ctorErr = ErrCorruptDirectory)
              /\ ~ReachesEnd(archive) =>
                    (pc = "ready" /\ Len(directory.file_entries) = archive.tableCount)

\* the table is declared as long as its first record: the cursor is exactly
\* at its end before the second record, and the construction has failed
C25_Witness ==
    /\ pc = "failed" /\ ctorErr = ErrCorruptDirectory
    /\ archive.tableCount = 2
    /\ archive.tableLength = RecordLength(archive, 1)

(***************************************************************************)
(* Calls on a stream (specification SpecStream)                            *)
(***************************************************************************)
\* the step is a call of one of these kinds on a stream of the container
StreamCall(ops) == lastOp'.op \in ops /\ lastOp'.stream \in 1..Len(streams)

\* C26: on a released stream every read, peek, seek and tell fails with
\* Closed and changes neither the shared handle, nor its cursor, nor the
\* open-stream count.
C26_ReleasedStreamIsClosed ==
    [][(/\ StreamCall({"stream_read", "stream_peek", "stream_seek", "stream_tell"})
        /\ streams[lastOp'.stream].released)
       => /\ lastOp'.err = ErrClosed
          /\ filePos' = filePos /\ fileClosed' = fileClosed /\ refcount' = refcount
      ]_vars

\* where the payload block of the entry ends in the archive file
BlockEnd(info) ==
    LET k == CHOOSE k \in 1..Len(archive.entries) : PayloadOffset(archive, k) = info.offset
    IN  info.offset + Len(PayloadBlock(archive, k))

\* C27: after every read, peek and seek on an open stream the position of
\* each stream is within 0..size_original; a read advances the position by
\* the number of bytes it returns; the bytes a read or peek returns lie
\* inside the payload block of the stream's entry.
C27_PositionBounded ==
    [][ /\ \A s \in 1..Len(streams') :
              /\ streams'[s].position >= 0
              /\ streams'[s].position <= streams'[s].info.size_original
        /\ (StreamCall({"stream_read"}) /\ lastOp'.err = ErrNone) =>
              streams'[lastOp'.stream].position - streams[lastOp'.stream].position
                 = Len(lastOp'.data)
        /\ (StreamCall({"stream_read", "stream_peek"}) /\ lastOp'.err = ErrNone) =>
              LET st == streams[lastOp'.stream]
              IN  /\ st.position >= 0
                  /\ st.info.offset + st.position + Len(lastOp'.data) <= BlockEnd(st.info)
      ]_vars

\* n clamped into 0..size
Clamp(n, size) == IF n < 0 THEN 0 ELSE IF n > size THEN size ELSE n

\* C28: seek(offset, whence) on an open stream sets the position to offset
\* (whence 0), position + offset (whence 1) or size_original + offset
\* (whence 2), clamped into 0..size_original, and returns it; any other whence
\* is rejected and leaves the position as it was.
C28_SeekSemantics ==
    [][(/\ StreamCall({"stream_seek"})
        /\ ~StreamClosed(streams[lastOp'.stream], fileClosed))
       => LET s == lastOp'.stream
              st == streams[s]
              offset == lastOp'.name[1]
              whence == lastOp'.name[2]
              size == st.info.size_original
              target == IF whence = 0 THEN offset
                        ELSE IF whence = 1 THEN st.position + offset
                        ELSE size + offset
          IN  IF whence \in {0, 1, 2}
              THEN /\ lastOp'.err = ErrNone
                   /\ streams'[s].position = Clamp(target, size)
                   /\ lastOp'.data = <<Clamp(target, size)>>
              ELSE /\ lastOp'.err # ErrNone
                   /\ streams'[s].position = st.position
      ]_vars

\* C24: a palette read from a file, written back in the same format and read
\* again equals the palette first read: the same swatches in order, with the
\* same names (an absent name stays absent) and the same colour values
C24_SameFormatRoundTrip ==
    (convert.pc = "compared") => (convert.rewritten = convert.data)

====
